---- MODULE Spec2Model ----
(***************************************************************************)
(* Model of load_llm_qna.py: the Q&A sheet -> SQLite loader.               *)
(*                                                                         *)
(* A text is a sequence of characters; a character is one of the strings   *)
(* of Chars.  The Python value None and the float NaN that pandas puts in  *)
(* an empty cell are two sentinels that are not texts.                     *)
(*                                                                         *)
(* Three specifications share the variables:                               *)
(*   SpecClean  clean_text applied to one value                            *)
(*   SpecRead   read_table (and the dry-run preview) applied to one sheet  *)
(*   Spec       main run after run against one database file               *)
(***************************************************************************)
EXTENDS Integers, Sequences, FiniteSets, TLC

VARIABLES
  s,          \* clean_text: the argument of the call
  out,        \* clean_text: the value returned
  pc,         \* position in main (or in the clean_text call)
  table,      \* the DataFrame read from the input file
  keep,       \* read_table's keep_empty_answers
  with_fts,   \* not args.no_fts
  long_df,    \* the long DataFrame read_table returns
  preview,    \* the rows the dry run prints
  disk,       \* the database file: what is committed
  db,         \* the database as the open connection sees it
  model_map,  \* name -> id, as upsert_model_ids returns it
  qid_map,    \* text -> id, as upsert_questions returns it
  now,        \* insert_or_update_answers' local now
  i,          \* insert_or_update_answers: index of the next row of rows
  n,          \* insert_or_update_answers' local n
  clock,      \* the wall clock datetime.utcnow() reads
  runs,       \* how many times main was started
  pre,        \* the database file as it was when this run connected
  last_df,    \* the batch of the previous run, if that run committed
  again       \* this run's batch is the previous committed run's batch

vars == <<s, out, pc, table, keep, with_fts, long_df, preview, disk, db,
          model_map, qid_map, now, i, n, clock, runs, pre, last_df, again>>

---------------------------------------------------------------------------
(* Bounds *)

MaxLen == 3    \* SpecClean: longest enumerated argument of clean_text
MaxRows == 2   \* SpecRead: most rows of an enumerated sheet
MaxCols == 2   \* SpecRead: most model columns of an enumerated sheet
MaxRuns == 2   \* Spec: most runs of main against the database file

---------------------------------------------------------------------------
(* Values *)

None == <<"None">>
NaN == <<"NaN">>

Chars == {"TAB", "LF", "CR", "SP", "a", "b", "n", "x", "y", "NBSP"}

\* The code point of a character: what sorted() compares.
CharCode(c) ==
  CASE c = "TAB" -> 9
    [] c = "LF" -> 10
    [] c = "CR" -> 13
    [] c = "SP" -> 32
    [] c = "a" -> 97
    [] c = "b" -> 98
    [] c = "n" -> 110
    [] c = "x" -> 120
    [] c = "y" -> 121
    [] c = "NBSP" -> 160

\* str.isspace(): the characters str.strip() and str.rstrip() remove.
IsSpace(c) == c \in {"TAB", "LF", "CR", "SP", "NBSP"}

\* str(v): a text is itself, the float NaN prints as "nan".
Str(v) == IF v = NaN THEN <<"n", "a", "n">> ELSE v

\* bool(v) of a text or None, as in "if not name" and "if s".
Truthy(v) == v # None /\ v # <<>>

Replace(t, old, new) == [k \in 1..Len(t) |-> IF t[k] = old THEN new ELSE t[k]]

RECURSIVE RStrip(_)
RStrip(t) ==
  IF t = <<>> THEN t
  ELSE IF IsSpace(t[Len(t)]) THEN RStrip(SubSeq(t, 1, Len(t) - 1)) ELSE t

RECURSIVE LStrip(_)
LStrip(t) ==
  IF t = <<>> THEN t
  ELSE IF IsSpace(t[1]) THEN LStrip(Tail(t)) ELSE t

Strip(t) == LStrip(RStrip(t))

\* str.splitlines(): CR LF is one line break, CR or LF alone is one, and a
\* text that ends with a line break has no empty last line.
RECURSIVE SplitFrom(_, _, _)
SplitFrom(t, cur, acc) ==
  IF t = <<>> THEN (IF cur = <<>> THEN acc ELSE Append(acc, cur))
  ELSE IF t[1] = "CR" /\ Len(t) >= 2 /\ t[2] = "LF"
    THEN SplitFrom(Tail(Tail(t)), <<>>, Append(acc, cur))
  ELSE IF t[1] \in {"CR", "LF"}
    THEN SplitFrom(Tail(t), <<>>, Append(acc, cur))
  ELSE SplitFrom(Tail(t), Append(cur, t[1]), acc)

SplitLines(t) == SplitFrom(t, <<>>, <<>>)

RECURSIVE Join(_, _)
Join(lines, sep) ==
  IF lines = <<>> THEN <<>>
  ELSE IF Len(lines) = 1 THEN lines[1]
  ELSE lines[1] \o <<sep>> \o Join(Tail(lines), sep)

\* s.replace("\r", "\n").replace("\u00a0", " ")
NormalizeBreaks(t) == Replace(Replace(t, "CR", "LF"), "NBSP", "SP")

\* "\n".join(line.rstrip() for line in s.splitlines())
RStripLines(t) ==
  LET lines == SplitLines(t)
  IN Join([k \in 1..Len(lines) |-> RStrip(lines[k])], "LF")

clean_text(v) ==
  IF v = None THEN None
  ELSE LET t == Strip(RStripLines(NormalizeBreaks(Str(v))))
       IN IF t # <<>> THEN t ELSE None

---------------------------------------------------------------------------
(* read_table.  A sheet is the DataFrame after the question column was     *)
(* renamed: cols are the headers of the other columns, in column order,    *)
(* and each row has the question cell q and the cells a of those columns.  *)

Row(q, a) == [q |-> q, a |-> a]
Sheet(cols, rows) == [cols |-> cols, rows |-> rows]

\* df["question_text"].apply(clean_text)
CleanQuestions(rows) ==
  [r \in 1..Len(rows) |-> Row(clean_text(rows[r].q), rows[r].a)]

\* A slip: the rows without question text are not dropped.
KeepAllQuestions(rows) == rows

\* df.dropna(subset=["question_text"])
DropNaQuestions(rows) == SelectSeq(rows, LAMBDA r : r.q # None)

LongRecord(q, m, a) == [question_text |-> q, model_name |-> m, answer_text |-> a]

\* One model column of the melt: that column's cell of every row, in row order.
MeltColumn(rows, cols, c) ==
  [r \in 1..Len(rows) |-> LongRecord(rows[r].q, cols[c], rows[r].a[c])]

\* One row of a row-major reshape: that row's cell of every column.
MeltRow(rows, cols, r) ==
  [c \in 1..Len(cols) |-> LongRecord(rows[r].q, cols[c], rows[r].a[c])]

RECURSIVE MeltRowsFrom(_, _, _)
MeltRowsFrom(rows, cols, r) ==
  IF r > Len(rows) THEN <<>>
  ELSE MeltRow(rows, cols, r) \o MeltRowsFrom(rows, cols, r + 1)

\* df.melt(id_vars, value_vars=model_cols): the value columns one after another.
RECURSIVE MeltFrom(_, _, _)
MeltFrom(rows, cols, c) ==
  IF c > Len(cols) THEN <<>>
  ELSE MeltColumn(rows, cols, c) \o MeltFrom(rows, cols, c + 1)

\* A slip: the reshape goes row by row.
MeltRowMajor(rows, cols) == MeltRowsFrom(rows, cols, 1)

Melt(rows, cols) == MeltFrom(rows, cols, 1)

\* model_name .astype(str).str.strip(); answer_text .apply(clean_text)
CleanLong(recs) ==
  [k \in 1..Len(recs) |->
     LongRecord(recs[k].question_text,
                Strip(Str(recs[k].model_name)),
                clean_text(recs[k].answer_text))]

\* if not keep_empty_answers: long_df.dropna(subset=["answer_text"])
DropNaAnswers(recs, keep_empty_answers) ==
  IF keep_empty_answers THEN recs
  ELSE SelectSeq(recs, LAMBDA r : r.answer_text # None)

\* len(df.columns) < 2
TooFewColumns(t) == Len(t.cols) < 1

read_table(t, keep_empty_answers) ==
  DropNaAnswers(
    CleanLong(Melt(DropNaQuestions(CleanQuestions(t.rows)), t.cols)),
    keep_empty_answers)

PreviewRows == 8

\* long_df.head(8)
Head8(recs) == SubSeq(recs, 1, IF Len(recs) < PreviewRows THEN Len(recs) ELSE PreviewRows)

---------------------------------------------------------------------------
(* The database.  questions, models and answers are the rows of the three  *)
(* tables the load writes; tables says that SCHEMA_SQL ran; fts_on says    *)
(* that FTS_SQL ran (questions_fts and its three triggers exist); fts is   *)
(* the content of the full-text index, one entry per indexed row.          *)

EmptyStore ==
  [tables |-> FALSE, fts_on |-> FALSE,
   questions |-> {}, models |-> {}, answers |-> {}, fts |-> {}]

\* executescript(SCHEMA_SQL); if with_fts: executescript(FTS_SQL).  Every
\* statement is CREATE ... IF NOT EXISTS: what exists is left as it is, and a
\* new questions_fts starts with an empty index.
create_schema(st, fts) ==
  [st EXCEPT !.tables = TRUE, !.fts_on = @ \/ fts]

\* The rowid SQLite gives a new row of an INTEGER PRIMARY KEY table.
NextId(rows) ==
  IF rows = {} THEN 1
  ELSE (CHOOSE m \in {r.id : r \in rows} : \A r \in rows : r.id <= m) + 1

\* Trigger questions_ai, when it exists.
questions_ai(st, id, text) ==
  IF st.fts_on THEN [st EXCEPT !.fts = @ \cup {[rowid |-> id, text |-> text]}]
  ELSE st

\* A slip: REPLACE conflict resolution, the old row is deleted and a new one
\* inserted.
InsertOrReplaceQuestion(st, text, at) ==
  LET rest == {q \in st.questions : q.text # text}
      id == NextId(st.questions)
  IN questions_ai([st EXCEPT !.questions =
                     rest \cup {[id |-> id, text |-> text, created_at |-> at]}],
                  id, text)

\* INSERT OR IGNORE INTO questions(text, created_at) VALUES (?, ?)
InsertOrIgnoreQuestion(st, text, at) ==
  IF \E q \in st.questions : q.text = text THEN st
  ELSE LET id == NextId(st.questions)
       IN questions_ai([st EXCEPT !.questions =
                          @ \cup {[id |-> id, text |-> text, created_at |-> at]}],
                       id, text)

\* A slip: no conflict handling, a row is added whatever the table holds.
InsertModel(st, name) ==
  [st EXCEPT !.models = @ \cup {[id |-> NextId(st.models), name |-> name]}]

\* INSERT OR IGNORE INTO models(name) VALUES (?)
InsertOrIgnoreModel(st, name) ==
  IF \E m \in st.models : m.name = name THEN st
  ELSE [st EXCEPT !.models = @ \cup {[id |-> NextId(st.models), name |-> name]}]

AnswerRow(id, qid, mid, a, at) ==
  [id |-> id, question_id |-> qid, model_id |-> mid, answer_text |-> a,
   created_at |-> at]

\* A slip: INSERT OR IGNORE, the row that is there wins.
InsertOrIgnoreAnswer(st, qid, mid, a, at) ==
  IF \E r \in st.answers : r.question_id = qid /\ r.model_id = mid THEN st
  ELSE [st EXCEPT !.answers = @ \cup {AnswerRow(NextId(st.answers), qid, mid, a, at)}]

\* A slip: INSERT OR REPLACE, the row that is there is deleted and a new row
\* inserted.
InsertOrReplaceAnswer(st, qid, mid, a, at) ==
  LET rest == {r \in st.answers : ~(r.question_id = qid /\ r.model_id = mid)}
  IN [st EXCEPT !.answers = rest \cup {AnswerRow(NextId(st.answers), qid, mid, a, at)}]

\* INSERT INTO answers ... ON CONFLICT(question_id, model_id) DO UPDATE SET
\* answer_text=excluded.answer_text, created_at=excluded.created_at
UpsertAnswer(st, qid, mid, a, at) ==
  IF \E r \in st.answers : r.question_id = qid /\ r.model_id = mid
  THEN [st EXCEPT !.answers =
          {IF r.question_id = qid /\ r.model_id = mid
             THEN [r EXCEPT !.answer_text = a, !.created_at = at]
             ELSE r : r \in st.answers}]
  ELSE [st EXCEPT !.answers = @ \cup {AnswerRow(NextId(st.answers), qid, mid, a, at)}]

\* Comparison of two texts as Python compares str: by code point, a proper
\* prefix first.
RECURSIVE LexLess(_, _)
LexLess(u, v) ==
  IF v = <<>> THEN FALSE
  ELSE IF u = <<>> THEN TRUE
  ELSE IF u[1] # v[1] THEN CharCode(u[1]) < CharCode(v[1])
  ELSE LexLess(Tail(u), Tail(v))

\* sorted(set(names))
RECURSIVE Sorted(_)
Sorted(S) ==
  IF S = {} THEN <<>>
  ELSE LET m == CHOOSE u \in S : \A v \in S : v = u \/ LexLess(u, v)
       IN <<m>> \o Sorted(S \ {m})

\* Series.dropna().unique().tolist(): the values in order of first appearance.
RECURSIVE Unique(_, _)
Unique(vals, seen) ==
  IF vals = <<>> THEN <<>>
  ELSE IF vals[1] = None \/ vals[1] \in seen THEN Unique(Tail(vals), seen)
  ELSE <<vals[1]>> \o Unique(Tail(vals), seen \cup {vals[1]})

\* long_df["model_name"].dropna().unique().tolist()
ModelNames(df) == Unique([k \in 1..Len(df) |-> df[k].model_name], {})

\* long_df["question_text"].dropna().unique().tolist()
Questions(df) == Unique([k \in 1..Len(df) |-> df[k].question_text], {})

\* for name in sorted(set(model_names)): if not name: continue; INSERT OR IGNORE
RECURSIVE InsertModels(_, _)
InsertModels(st, names) ==
  IF names = <<>> THEN st
  ELSE InsertModels(IF ~Truthy(names[1]) THEN st
                    ELSE InsertOrIgnoreModel(st, names[1]),
                    Tail(names))

upsert_model_ids(st, names) ==
  InsertModels(st, Sorted({names[k] : k \in 1..Len(names)}))

\* SELECT id, name FROM models into model_map
ModelMap(st) ==
  [name \in {m.name : m \in st.models} |->
     (CHOOSE m \in st.models : m.name = name).id]

\* for q in questions: INSERT OR IGNORE
RECURSIVE upsert_questions(_, _, _)
upsert_questions(st, questions, at) ==
  IF questions = <<>> THEN st
  ELSE upsert_questions(InsertOrIgnoreQuestion(st, questions[1], at),
                        Tail(questions), at)

\* SELECT id, text FROM questions into qid_map
QidMap(st) ==
  [text \in {q.text : q \in st.questions} |->
     (CHOOSE q \in st.questions : q.text = text).id]

\* A slip: a row without answer text is not skipped.
SkippedUnlessNamed(r) ==
  ~(Truthy(r.question_text) /\ Truthy(r.model_name))

\* if not (q and m and a): continue
Skipped(r) ==
  ~(Truthy(r.question_text) /\ Truthy(r.model_name) /\ Truthy(r.answer_text))

---------------------------------------------------------------------------
(* Inputs *)

\* The argument of the normalization example: two spaces, a, CR, LF, b,
\* space, NBSP, space, LF, two spaces.
ExampleText ==
  <<"SP", "SP", "a", "CR", "LF", "b", "SP", "NBSP", "SP", "LF", "SP", "SP">>

CleanChars == {"a", "b", "SP", "CR", "LF", "NBSP"}

CleanArgs ==
  {None, NaN, ExampleText} \cup UNION {[1..k -> CleanChars] : k \in 0..MaxLen}

\* Every sheet of at most MaxRows rows and MaxCols model columns over these
\* headers and cells.  pandas keeps the labels of a DataFrame distinct.
HeaderNames == {<<"x">>, <<"SP", "y">>, <<"SP">>}
QCells == {<<"a">>, <<"b">>, <<"SP">>}
ACells == {<<"a">>, <<"SP">>}

ColTuples(k) ==
  {c \in [1..k -> HeaderNames] : \A p, q \in 1..k : c[p] = c[q] => p = q}

RowTuples(r, k) ==
  [1..r -> {Row(q, a) : q \in QCells, a \in [1..k -> ACells]}]

\* The sheets main is run on.
Scenario ==
  Sheet(<< <<"x">>, <<"y">> >>,
        << Row(<<"a">>, << <<"a">>, <<"b">> >>),
           Row(<<"b">>, << <<"SP">>, <<"b">> >>) >>)

Reloaded ==
  Sheet(<< <<"x">>, <<"y">> >>,
        << Row(<<"a">>, << <<"b">>, <<"b">> >>),
           Row(<<"b">>, << <<"SP">>, <<"b">> >>) >>)

PaddedHeader ==
  Sheet(<< <<"x">>, <<"SP", "x">> >>,
        << Row(<<"a">>, << <<"a">>, <<"b">> >>) >>)

BlankHeader ==
  Sheet(<< <<"x">>, <<"SP">> >>,
        << Row(<<"a">>, << <<"a">>, <<"b">> >>) >>)

RepeatedQuestion ==
  Sheet(<< <<"x">> >>,
        << Row(<<"a">>, << <<"a">> >>),
           Row(<<"a", "SP">>, << <<"b">> >>) >>)

EmptyCells ==
  Sheet(<< <<"x">>, <<"y">> >>,
        << Row(<<"SP">>, << <<"a">>, <<"a">> >>),
           Row(NaN, << <<"a">>, NaN >>) >>)

WindowsBreaks ==
  Sheet(<< <<"y">> >>,
        << Row(<<"a", "CR", "LF", "b">>, << <<"b", "NBSP">> >>) >>)

Wide ==
  Sheet(<< <<"x">>, <<"y">>, <<"y", "SP">>, <<"TAB", "x">> >>,
        << Row(<<"a">>, << <<"a">>, <<"b">>, <<"a">>, <<"SP">> >>),
           Row(<<"b">>, << <<"b">>, <<"a">>, <<"a">>, <<"b">> >>),
           Row(<<"a", "b">>, << <<"a">>, <<"LF">>, <<"b">>, <<"a">> >>) >>)

AllBlank ==
  Sheet(<< <<"x">> >>, << Row(<<"a">>, << <<"SP">> >>) >>)

NoModels ==
  Sheet(<<>>, << Row(<<"a">>, <<>>) >>)

Sheets ==
  {Scenario, Reloaded, PaddedHeader, BlankHeader, RepeatedQuestion,
   EmptyCells, WindowsBreaks, Wide, AllBlank, NoModels}

---------------------------------------------------------------------------
(* State *)

EmptyMap == [x \in {} |-> 0]
NoSheet == Sheet(<<>>, <<>>)
NoBatch == [ok |-> FALSE, df |-> <<>>]

\* No call of clean_text, no run of main, no database file.
Rest ==
  /\ s = None
  /\ out = None
  /\ table = NoSheet
  /\ keep = FALSE
  /\ with_fts = FALSE
  /\ long_df = <<>>
  /\ preview = <<>>
  /\ disk = EmptyStore
  /\ db = EmptyStore
  /\ model_map = EmptyMap
  /\ qid_map = EmptyMap
  /\ now = 0
  /\ i = 0
  /\ n = 0
  /\ clock = 1
  /\ runs = 0
  /\ pre = EmptyStore
  /\ last_df = NoBatch
  /\ again = FALSE

Init == pc = "idle" /\ Rest

InitClean ==
  /\ pc = "call"
  /\ s \in CleanArgs
  /\ out = None
  /\ table = NoSheet /\ keep = FALSE /\ with_fts = FALSE /\ long_df = <<>>
  /\ preview = <<>> /\ disk = EmptyStore /\ db = EmptyStore
  /\ model_map = EmptyMap /\ qid_map = EmptyMap /\ now = 0 /\ i = 0 /\ n = 0
  /\ clock = 1 /\ runs = 0 /\ pre = EmptyStore /\ last_df = NoBatch
  /\ again = FALSE

InitRead ==
  /\ pc = "start"
  /\ \/ table \in Sheets
     \/ \E k \in 0..MaxCols, r \in 0..MaxRows :
          \E cols \in ColTuples(k), rows \in RowTuples(r, k) :
            table = Sheet(cols, rows)
  /\ keep \in BOOLEAN
  /\ s = None /\ out = None /\ with_fts = FALSE /\ long_df = <<>>
  /\ preview = <<>> /\ disk = EmptyStore /\ db = EmptyStore
  /\ model_map = EmptyMap /\ qid_map = EmptyMap /\ now = 0 /\ i = 0 /\ n = 0
  /\ clock = 1 /\ runs = 0 /\ pre = EmptyStore /\ last_df = NoBatch
  /\ again = FALSE

---------------------------------------------------------------------------
(* Actions *)

\* One call of clean_text.
CleanText ==
  /\ pc = "call"
  /\ out' = clean_text(s)
  /\ pc' = "ret"
  /\ UNCHANGED <<s, table, keep, with_fts, long_df, preview, disk, db,
                 model_map, qid_map, now, i, n, clock, runs, pre, last_df, again>>

\* main is started on a sheet.  keep_empty_answers is read_table's parameter;
\* main itself leaves it at its default, False.
StartRun(t, k, f) ==
  /\ pc = "idle"
  /\ runs < MaxRuns
  /\ runs' = runs + 1
  /\ table' = t
  /\ keep' = k
  /\ with_fts' = f
  /\ pc' = "start"
  /\ UNCHANGED <<s, out, long_df, preview, disk, db, model_map, qid_map, now,
                 i, n, clock, pre, last_df, again>>

\* long_df = read_table(...): a sheet without model columns raises ValueError.
ReadTable ==
  /\ pc = "start"
  /\ IF TooFewColumns(table)
       THEN /\ pc' = "error"
            /\ UNCHANGED <<long_df, again>>
       ELSE /\ long_df' = read_table(table, keep)
            /\ again' = (last_df.ok /\ last_df.df = long_df')
            /\ pc' = "parsed"
  /\ UNCHANGED <<s, out, table, keep, with_fts, preview, disk, db, model_map,
                 qid_map, now, i, n, clock, runs, pre, last_df>>

\* if args.dry_run: print(long_df.head(8)...); return
DryRun ==
  /\ pc = "parsed"
  /\ preview' = Head8(long_df)
  /\ pc' = "dry"
  /\ UNCHANGED <<s, out, table, keep, with_fts, long_df, disk, db, model_map,
                 qid_map, now, i, n, clock, runs, pre, last_df, again>>

\* con = sqlite3.connect(db_path); create_schema(con, with_fts), which commits.
CreateSchema ==
  /\ pc = "parsed"
  /\ pre' = disk
  /\ db' = create_schema(disk, with_fts)
  /\ disk' = db'
  /\ pc' = "models"
  /\ UNCHANGED <<s, out, table, keep, with_fts, long_df, preview, model_map,
                 qid_map, now, i, n, clock, runs, last_df, again>>

\* model_map = upsert_model_ids(cur, model_names)
UpsertModels ==
  /\ pc = "models"
  /\ db' = upsert_model_ids(db, ModelNames(long_df))
  /\ model_map' = ModelMap(db')
  /\ pc' = "questions"
  /\ UNCHANGED <<s, out, table, keep, with_fts, long_df, preview, disk,
                 qid_map, now, i, n, clock, runs, pre, last_df, again>>

\* qid_map = upsert_questions(cur, questions)
UpsertQuestions ==
  /\ pc = "questions"
  /\ db' = upsert_questions(db, Questions(long_df), clock)
  /\ clock' = clock + 1
  /\ qid_map' = QidMap(db')
  /\ pc' = "begin"
  /\ UNCHANGED <<s, out, table, keep, with_fts, long_df, preview, disk,
                 model_map, now, i, n, runs, pre, last_df, again>>

\* insert_or_update_answers: now = utcnow(); n = 0
BeginAnswers ==
  /\ pc = "begin"
  /\ now' = clock
  /\ clock' = clock + 1
  /\ n' = 0
  /\ i' = 1
  /\ pc' = "answers"
  /\ UNCHANGED <<s, out, table, keep, with_fts, long_df, preview, disk, db,
                 model_map, qid_map, runs, pre, last_df, again>>

\* insert_or_update_answers: one turn of "for r in rows".  qid_map[q] or
\* model_map[m] of a missing key raises KeyError, which leaves main through
\* its finally: con.close() without a commit.
AnswerStep ==
  /\ pc = "answers"
  /\ i <= Len(long_df)
  /\ LET r == long_df[i]
     IN IF Skipped(r)
          THEN /\ i' = i + 1
               /\ UNCHANGED <<db, n, pc, last_df>>
          ELSE IF r.question_text \notin DOMAIN qid_map
                  \/ r.model_name \notin DOMAIN model_map
            THEN /\ db' = disk
                 /\ pc' = "failed"
                 /\ last_df' = NoBatch
                 /\ UNCHANGED <<i, n>>
            ELSE /\ db' = UpsertAnswer(db, qid_map[r.question_text],
                                       model_map[r.model_name], r.answer_text, now)
                 /\ n' = n + 1
                 /\ i' = i + 1
                 /\ UNCHANGED <<pc, last_df>>
  /\ UNCHANGED <<s, out, table, keep, with_fts, long_df, preview, disk,
                 model_map, qid_map, now, clock, runs, pre, again>>

\* A slip: con.commit() in the finally block.
CloseCommits ==
  /\ pc \in {"models", "questions", "begin", "answers"}
  /\ disk' = db
  /\ pc' = "failed"
  /\ last_df' = NoBatch
  /\ UNCHANGED <<s, out, table, keep, with_fts, long_df, preview, db, model_map,
                 qid_map, now, i, n, clock, runs, pre, again>>

\* A statement of the upsert phases raises (the database is locked, the disk
\* is full, the process is interrupted): finally: con.close(), which drops
\* what was not committed.
Fail ==
  /\ pc \in {"models", "questions", "begin", "answers"}
  /\ db' = disk
  /\ pc' = "failed"
  /\ last_df' = NoBatch
  /\ UNCHANGED <<s, out, table, keep, with_fts, long_df, preview, disk,
                 model_map, qid_map, now, i, n, clock, runs, pre, again>>

\* n = insert_or_update_answers(...) returned; con.commit()
Commit ==
  /\ pc = "answers"
  /\ i > Len(long_df)
  /\ disk' = db
  /\ last_df' = [ok |-> TRUE, df |-> long_df]
  /\ pc' = "done"
  /\ UNCHANGED <<s, out, table, keep, with_fts, long_df, preview, db, model_map,
                 qid_map, now, i, n, clock, runs, pre, again>>

\* The process ends: finally: con.close() after a load, return after a dry
\* run, the traceback after an error.
Exit ==
  /\ pc \in {"done", "failed", "dry", "error"}
  /\ pc' = "idle"
  /\ table' = NoSheet
  /\ keep' = FALSE
  /\ with_fts' = FALSE
  /\ long_df' = <<>>
  /\ preview' = <<>>
  /\ db' = disk
  /\ model_map' = EmptyMap
  /\ qid_map' = EmptyMap
  /\ now' = 0
  /\ i' = 0
  /\ n' = 0
  /\ pre' = EmptyStore
  /\ again' = FALSE
  /\ UNCHANGED <<s, out, disk, clock, runs, last_df>>

NextClean == CleanText

NextRead == ReadTable \/ DryRun

Next ==
  \/ \E t \in Sheets, k \in BOOLEAN, f \in BOOLEAN : StartRun(t, k, f)
  \/ ReadTable
  \/ DryRun
  \/ CreateSchema
  \/ UpsertModels
  \/ UpsertQuestions
  \/ BeginAnswers
  \/ AnswerStep
  \/ Fail
  \/ Commit
  \/ Exit

SpecClean == InitClean /\ [][NextClean]_vars

SpecRead == InitRead /\ [][NextRead]_vars

Spec == Init /\ [][Next]_vars

---------------------------------------------------------------------------
(* Properties *)

\* The positions of main at which the long DataFrame is read, and those at
\* which the connection is open or was just closed.
Parsed == {"parsed", "dry", "models", "questions", "begin", "answers", "done", "failed"}
Connected == {"models", "questions", "begin", "answers", "done", "failed"}

\* The Answer rows of the (question text, model name) pair p in a store.
RowsOf(st, p) ==
  {r \in st.answers :
     \E q \in st.questions, m \in st.models :
       q.text = p[1] /\ m.name = p[2] /\ r.question_id = q.id /\ r.model_id = m.id}

\* The (question, model, answer_text) content of the Answer table.
Content(st) ==
  {<<x[1].text, x[2].name, x[3].answer_text>> :
     x \in {y \in st.questions \X st.models \X st.answers :
              y[3].question_id = y[1].id /\ y[3].model_id = y[2].id}}

\* The rows of a table without their timestamps.
Untimed(rows) == {[r EXCEPT !.created_at = 0] : r \in rows}

\* The records of the batch with the pair p and answer text, by position.
Occurrences(df, p) ==
  {k \in 1..Len(df) :
     /\ df[k].question_text = p[1]
     /\ df[k].model_name = p[2]
     /\ df[k].answer_text # None}

LastOf(S) == CHOOSE k \in S : \A j \in S : j <= k

\* The pairs of the batch that have a record with answer text.
AnsweredPairs(df) ==
  {<<df[k].question_text, df[k].model_name>> :
     k \in {j \in 1..Len(df) : df[j].answer_text # None}}

\* The question rows of the sheet: those with question text, cleaned.
QuestionRows(t) == DropNaQuestions(CleanQuestions(t.rows))

\* The long records of the sheet before the empty-answer filter.
Unfiltered(t) == CleanLong(Melt(QuestionRows(t), t.cols))

\* The cell of question row r and model column c as a long record.
CellRecord(rows, cols, r, c) ==
  LongRecord(rows[r].q, Strip(Str(cols[c])), clean_text(rows[r].a[c]))

\* The k-th cell in column-major and in row-major order.
ColumnMajorAt(rows, cols, k) ==
  CellRecord(rows, cols, ((k - 1) % Len(rows)) + 1, ((k - 1) \div Len(rows)) + 1)

RowMajorAt(rows, cols, k) ==
  CellRecord(rows, cols, ((k - 1) \div Len(cols)) + 1, ((k - 1) % Len(cols)) + 1)

\* The cells in the order At, without those the empty-answer policy drops.
InOrder(At(_, _, _), t, kp) ==
  LET rows == QuestionRows(t)
  IN SelectSeq([k \in 1..(Len(rows) * Len(t.cols)) |-> At(rows, t.cols, k)],
               LAMBDA r : kp \/ r.answer_text # None)

FirstRows(df, m) == SubSeq(df, 1, IF Len(df) < m THEN Len(df) ELSE m)

(* C1: a load of the batch that the previous, committed load loaded leaves  *)
(* the Answer table with the same (question, model, answer_text) content,   *)
(* creates no Question, Model or Answer row and changes no answer_text:     *)
(* only the timestamps of Answer rows may differ.                           *)
C1_SecondLoadChangesNothing ==
  (pc = "done" /\ again) =>
    /\ Content(disk) = Content(pre)
    /\ disk.questions = pre.questions
    /\ disk.models = pre.models
    /\ Untimed(disk.answers) = Untimed(pre.answers)

C1_Witness ==
  /\ pc = "done"
  /\ again
  /\ n > 0
  /\ \E p \in AnsweredPairs(long_df) : Cardinality(Occurrences(long_df, p)) > 1
  /\ disk.answers # pre.answers

(* C2: in every state of the store, committed or not, there is at most one  *)
(* Answer row per (question_id, model_id), at most one Question row per     *)
(* text and at most one Model row per name.                                 *)
C2_Unique ==
  \A st \in {db, disk} :
    /\ \A a, b \in st.answers :
         (a.question_id = b.question_id /\ a.model_id = b.model_id) => a = b
    /\ \A a, b \in st.questions : a.text = b.text => a = b
    /\ \A a, b \in st.models : a.name = b.name => a = b

C2_Witness ==
  /\ pc = "done"
  /\ pre.answers # {}
  /\ \E p \in AnsweredPairs(long_df) :
       /\ Cardinality(Occurrences(long_df, p)) > 1
       /\ RowsOf(pre, p) # {}
       /\ Cardinality(RowsOf(disk, p)) = 1

(* C3, as stated: after a committed load every pair of the batch that has   *)
(* a record with answer text has exactly one Answer row, which holds the    *)
(* text of the last such record; the Answer table grew by the number of     *)
(* those pairs that had no row before.                                      *)
C3_LastWriteWinsEveryPair ==
  pc = "done" =>
    /\ \A p \in AnsweredPairs(long_df) :
         \E r \in RowsOf(disk, p) :
           /\ RowsOf(disk, p) = {r}
           /\ r.answer_text = long_df[LastOf(Occurrences(long_df, p))].answer_text
    /\ Cardinality(disk.answers) =
         Cardinality(pre.answers)
         + Cardinality({p \in AnsweredPairs(long_df) : RowsOf(pre, p) = {}})

(* C3, amended: the same for the pairs whose model name is not empty.       *)
C3_LastWriteWins ==
  pc = "done" =>
    LET named == {p \in AnsweredPairs(long_df) : p[2] # <<>>}
    IN /\ \A p \in named :
            \E r \in RowsOf(disk, p) :
              /\ RowsOf(disk, p) = {r}
              /\ r.answer_text = long_df[LastOf(Occurrences(long_df, p))].answer_text
       /\ Cardinality(disk.answers) =
            Cardinality(pre.answers)
            + Cardinality({p \in named : RowsOf(pre, p) = {}})

C3_Witness ==
  /\ pc = "done"
  /\ \E p \in AnsweredPairs(long_df) :
       /\ Cardinality(Occurrences(long_df, p)) > 1
       /\ \E r \in RowsOf(pre, p), k \in Occurrences(long_df, p) :
            /\ r.answer_text # long_df[LastOf(Occurrences(long_df, p))].answer_text
            /\ long_df[k].answer_text # long_df[LastOf(Occurrences(long_df, p))].answer_text
  /\ \E p \in AnsweredPairs(long_df) : p[2] # <<>> /\ RowsOf(pre, p) = {}

(* C4: when a step of the upsert phases fails, the database file holds,     *)
(* once the connection is closed, exactly the Question, Model and Answer    *)
(* rows it held before the run.                                             *)
C4_FailedRunLeavesNoRow ==
  pc = "failed" =>
    /\ disk.questions = pre.questions
    /\ disk.models = pre.models
    /\ disk.answers = pre.answers
    /\ db = disk

C4_Witness ==
  /\ pc = "failed"
  /\ n > 0
  /\ pre.answers # {}
  /\ Questions(long_df) # <<>>
  /\ \E k \in 1..Len(long_df) : long_df[k].question_text \notin {q.text : q \in disk.questions}

(* C5: after a committed load, when the search index exists, it holds       *)
(* exactly one entry per Question row, with that row's id and text.         *)
C5_IndexMirrorsQuestions ==
  (pc = "done" /\ disk.fts_on) =>
    disk.fts = {[rowid |-> q.id, text |-> q.text] : q \in disk.questions}

(* C6, as stated: the long records are the cells in row-major order (row    *)
(* by row, each row in column order) without the dropped ones, and the      *)
(* dry-run preview is the first 8 of them.                                  *)
C6_RowMajor ==
  pc \in {"parsed", "dry"} =>
    LET cells == InOrder(RowMajorAt, table, keep)
    IN /\ long_df = cells
       /\ pc = "dry" => preview = FirstRows(cells, 8)

(* C6, amended: the long records are the cells in column-major order        *)
(* (column by column, each column in row order) without the dropped ones,   *)
(* and the dry-run preview is the first 8 of them.                          *)
C6_ColumnMajor ==
  pc \in {"parsed", "dry"} =>
    LET cells == InOrder(ColumnMajorAt, table, keep)
    IN /\ long_df = cells
       /\ pc = "dry" => preview = FirstRows(cells, 8)

C6_Witness ==
  /\ pc = "dry"
  /\ Len(QuestionRows(table)) > 1
  /\ Len(table.cols) > 1
  /\ Len(long_df) < Len(QuestionRows(table)) * Len(table.cols)
  /\ Len(long_df) > 8
  /\ Len(preview) = 8

(* C7: clean_text of the example text is a, LF, b; clean_text of the empty  *)
(* text and of None is None.                                                *)
C7_Example ==
  pc = "ret" =>
    /\ s = ExampleText => out = <<"a", "LF", "b">>
    /\ s \in {<<>>, None} => out = None

(* C8: by default a long record without answer text is not in the batch     *)
(* and, with the override, it is; either way the load leaves the Answer     *)
(* row of a pair that has no record with answer text as it was (none, if    *)
(* there was none), and n counts only the records that are not skipped.     *)
C8_EmptyAnswers ==
  /\ pc \in Parsed =>
       /\ ~keep => /\ \A k \in 1..Len(long_df) : long_df[k].answer_text # None
                   /\ Len(long_df) =
                        Cardinality({k \in 1..Len(Unfiltered(table)) :
                                       Unfiltered(table)[k].answer_text # None})
       /\ keep => long_df = Unfiltered(table)
  /\ pc = "done" =>
       /\ \A k \in 1..Len(Unfiltered(table)) :
            LET r == Unfiltered(table)[k]
                p == <<r.question_text, r.model_name>>
            IN Occurrences(Unfiltered(table), p) = {} =>
                 RowsOf(disk, p) = RowsOf(pre, p)
       /\ \A r \in disk.answers : r.answer_text # None
       /\ n = Cardinality({k \in 1..Len(long_df) :
                             /\ Truthy(long_df[k].question_text)
                             /\ Truthy(long_df[k].model_name)
                             /\ Truthy(long_df[k].answer_text)})

C8_Witness ==
  /\ pc = "done"
  /\ keep
  /\ n > 0
  /\ \E k \in 1..Len(long_df) :
       /\ long_df[k].answer_text = None
       /\ Truthy(long_df[k].model_name)
       /\ Occurrences(long_df, <<long_df[k].question_text, long_df[k].model_name>>) = {}

(* C9, as stated: every long record that reaches the upsert phases has a    *)
(* non-empty question_text and a non-empty model_name.                      *)
C9_NeverEmpty ==
  pc \in Parsed =>
    \A k \in 1..Len(long_df) :
      Truthy(long_df[k].question_text) /\ Truthy(long_df[k].model_name)

(* C9, amended: every long record has a non-empty question_text and a       *)
(* model_name that is not absent; the model_name is empty exactly for the   *)
(* records of a column whose header is empty once trimmed, and such a       *)
(* record makes no Model row and no Answer row.                             *)
C9_QuestionNeverEmpty ==
  /\ pc \in Parsed =>
       /\ \A k \in 1..Len(long_df) :
            /\ Truthy(long_df[k].question_text)
            /\ long_df[k].model_name # None
            /\ long_df[k].model_name = <<>> =>
                 \E c \in 1..Len(table.cols) : Strip(Str(table.cols[c])) = <<>>
       /\ \A c \in 1..Len(table.cols), r \in 1..Len(QuestionRows(table)) :
            (Strip(Str(table.cols[c])) = <<>>
               /\ (keep \/ clean_text(QuestionRows(table)[r].a[c]) # None))
            => \E k \in 1..Len(long_df) :
                 /\ long_df[k].model_name = <<>>
                 /\ long_df[k].question_text = QuestionRows(table)[r].q
  /\ \A st \in {db, disk} : \A m \in st.models : Truthy(m.name)
  /\ pc = "done" =>
       Cardinality(disk.answers) <=
         Cardinality(pre.answers)
         + Cardinality({k \in 1..Len(long_df) : Truthy(long_df[k].model_name)})

C9_Witness ==
  /\ pc = "done"
  /\ n > 0
  /\ \E k \in 1..Len(long_df) :
       long_df[k].model_name = <<>> /\ Truthy(long_df[k].answer_text)

(* C10: while a load runs and after it, every Question row and every Model  *)
(* row that was there before is there unchanged (id, text or name,          *)
(* created_at), and every Answer row that was there is still there with     *)
(* its id, question and model.                                              *)
C10_RowsStay ==
  pc \in Connected =>
    \A st \in {db, disk} :
      /\ pre.questions \subseteq st.questions
      /\ pre.models \subseteq st.models
      /\ \A r \in pre.answers :
           \E r2 \in st.answers :
             /\ r2.id = r.id
             /\ r2.question_id = r.question_id
             /\ r2.model_id = r.model_id

C10_Witness ==
  /\ pc = "done"
  /\ \E q \in pre.questions : q.text \in {long_df[k].question_text : k \in 1..Len(long_df)}
  /\ \E m \in pre.models : m.name \in {long_df[k].model_name : k \in 1..Len(long_df)}
  /\ disk.questions # pre.questions
  /\ disk.models # pre.models
  /\ disk.answers # pre.answers

====
